---- MODULE Spec2Model ----
(***************************************************************************)
(* Model of indicium/base.py: the Store contract, the in-memory DictStore, *)
(* the query_iterable filter and the Cache shim over two stores.           *)
(*                                                                         *)
(* Strings (keys, patterns) are sequences of one-character strings, so     *)
(* that normalisation, glob matching and key ordering are computed         *)
(* character by character as the Python code does.                         *)
(***************************************************************************)
EXTENDS Integers, Sequences, FiniteSets, TLC

VARIABLES
    items,      \* DictStore._items of a stand-alone DictStore
    cache,      \* _items of the DictStore wrapped as Cache.cache
    backing,    \* _items of the DictStore wrapped as Cache.child
    last,       \* the last completed call: operation, arguments, result
    old,        \* contents of the stores when the last call started
    pc,         \* per thread: the next step of its Cache call
    frame,      \* per thread: the call's arguments and its local `value`
    hist,       \* the steps taken by the threads, in order
    pending     \* the iterable returned by a query and not yet consumed

conc == <<pc, frame, hist, pending>>

vars == <<items, cache, backing, last, old, pc, frame, hist, pending>>

-----------------------------------------------------------------------------
(* Bounds and input sets *)

MaxKeyLen == 2
MaxPatLen == 2
MaxItems == 2

\* Python's None: the "absent" result of get, and also a storable value.
None == "None"

Sep == "/"

KeyAlphabet == {"/", "a"}
PatAlphabet == {"/", "a", "*"}

Values == {None, "1", "2"}

\* Values held by the store that is queried; query never looks at a value.
QueryValues == {"1", "2"}

Strings(A, n) == UNION {[1..m -> A] : m \in 0..n}

Keys == Strings(KeyAlphabet, MaxKeyLen)
Patterns == Strings(PatAlphabet, MaxPatLen)

\* An optional integer is <<>> (Python's None) or <<n>>.
NoLimit == <<>>
Limits == {NoLimit} \cup {<<n>> : n \in 0..MaxItems}
Offsets == 0..MaxItems

\* Keys used against the Cache: "a", "/a" (same canonical form) and "aa".
CacheKeys == {<<"a">>, <<"/", "a">>, <<"a", "a">>}

\* Queries made through the Cache: "*", "a*" and "a", with and without page
CachePatterns == {<<"*">>, <<"a", "*">>, <<"a">>}
CacheLimits == {NoLimit, <<1>>}
CacheOffsets == {0, 1}

-----------------------------------------------------------------------------
(* key.normalize: a single leading separator, runs of separators collapsed *)

RECURSIVE CollapseInto(_, _)
CollapseInto(acc, s) ==
    IF s = <<>> THEN acc
    ELSE IF Head(s) = Sep /\ acc[Len(acc)] = Sep
         THEN CollapseInto(acc, Tail(s))
         ELSE CollapseInto(Append(acc, Head(s)), Tail(s))

normalize(s) == CollapseInto(<<Sep>>, s)

-----------------------------------------------------------------------------
(* DictStore *)

EmptyItems == [k \in {} |-> None]

DictStore_get(d, key) ==
    IF normalize(key) \in DOMAIN d THEN d[normalize(key)] ELSE None

\* Variant of DictStore.put that stores under the key as given.
DictStore_put_Raw(d, key, value) ==
    [k \in (DOMAIN d) \cup {key} |-> IF k = key THEN value ELSE d[k]]

DictStore_put(d, key, value) ==
    [k \in (DOMAIN d) \cup {normalize(key)} |->
        IF k = normalize(key) THEN value ELSE d[k]]

\* del d[k]: removes k, or raises KeyError when k is not in d
dict_del(d, k) ==
    IF k \in DOMAIN d
    THEN [items |-> [x \in (DOMAIN d) \ {k} |-> d[x]], raised |-> None]
    ELSE [items |-> d, raised |-> "KeyError"]

\* Variant of DictStore.delete without the try/except around del.
DictStore_delete_NoCatch(d, key) == dict_del(d, normalize(key))

\* The contents after the call and the exception that leaves it (None: none)
DictStore_delete(d, key) ==
    LET r == dict_del(d, normalize(key))
    IN  IF r.raised = "KeyError" THEN [items |-> r.items, raised |-> None] ELSE r

DictStore_contains(d, key) == normalize(key) \in DOMAIN d

\* Store.contains, the default: get(key) is not None
Store_contains(got) == got # None

NullStore_get(key) == None

\* NullStore and Shim do not override contains
NullStore_contains(key) == Store_contains(NullStore_get(key))

\* The parameters, after self, of def query(self, limit=None, offset=0)
NullStore_query_params == <<"limit", "offset">>

\* NullStore.query called with the positional arguments args: Python binds
\* them to the parameters in order and raises TypeError when there are more
\* arguments than parameters; otherwise the body returns ().
NullStore_query(args) ==
    IF Len(args) > Len(NullStore_query_params)
    THEN [ret |-> <<>>, raised |-> "TypeError"]
    ELSE [ret |-> <<>>, raised |-> None]

\* Shim.query(pattern, limit=None, offset=0) called with args: the arguments
\* of its call self.child.query(pattern, limit, offset)
Shim_query_forward(args) ==
    <<args[1],
      IF Len(args) >= 2 THEN args[2] ELSE <<>>,
      IF Len(args) >= 3 THEN args[3] ELSE 0>>

\* Shim over a DictStore child
Shim_get(d, key) == DictStore_get(d, key)

Shim_contains(d, key) == Store_contains(Shim_get(d, key))

-----------------------------------------------------------------------------
(* query_iterable *)

\* Code points of the characters, the order Python compares strings by.
Ord(c) == CASE c = "*" -> 42 [] c = "/" -> 47 [] c = "a" -> 97

\* a < b on strings: lexicographic by code point
RECURSIVE StrLess(_, _)
StrLess(a, b) ==
    IF b = <<>> THEN FALSE
    ELSE IF a = <<>> THEN TRUE
    ELSE IF Head(a) = Head(b) THEN StrLess(Tail(a), Tail(b))
    ELSE Ord(Head(a)) < Ord(Head(b))

\* re.compile(fnmatch.translate(pat), re.DOTALL).match(key): the pattern is
\* anchored at both ends, "*" becomes ".*", any other character of
\* PatAlphabet matches itself.
\* Variant of the matcher in which "*" does not match the separator.
RECURSIVE fnmatch_match_NoSep(_, _)
fnmatch_match_NoSep(pat, key) ==
    IF pat = <<>> THEN key = <<>>
    ELSE IF Head(pat) = "*"
         THEN \/ fnmatch_match_NoSep(Tail(pat), key)
              \/ key # <<>> /\ Head(key) # Sep /\ fnmatch_match_NoSep(pat, Tail(key))
         ELSE /\ key # <<>>
              /\ Head(key) = Head(pat)
              /\ fnmatch_match_NoSep(Tail(pat), Tail(key))

RECURSIVE fnmatch_match(_, _)
fnmatch_match(pat, key) ==
    IF pat = <<>> THEN key = <<>>
    ELSE IF Head(pat) = "*"
         THEN \/ fnmatch_match(Tail(pat), key)
              \/ key # <<>> /\ fnmatch_match(pat, Tail(key))
         ELSE /\ key # <<>>
              /\ Head(key) = Head(pat)
              /\ fnmatch_match(Tail(pat), Tail(key))

\* sorted(iterable, key=lambda x: x[0]): a stable sort of (key, value) pairs
InsertSorted(s, e) ==
    LET n == Cardinality({i \in 1..Len(s) : ~StrLess(e[1], s[i][1])})
    IN  SubSeq(s, 1, n) \o <<e>> \o SubSeq(s, n + 1, Len(s))

RECURSIVE sorted(_)
sorted(s) ==
    IF s = <<>> THEN <<>>
    ELSE InsertSorted(sorted(SubSeq(s, 1, Len(s) - 1)), s[Len(s)])

\* itertools.islice(s, start, stop), fully consumed; stop is optional
islice(s, start, stop) ==
    LET end == IF stop = NoLimit \/ stop[1] > Len(s) THEN Len(s) ELSE stop[1]
    IN  IF start >= end THEN <<>> ELSE SubSeq(s, start + 1, end)

MatchAll == <<"/", "*">>

query_filter(iterable, pattern) ==
    LET pat == normalize(pattern)
        match(e) == fnmatch_match(pat, e[1])
    IN  IF pat # MatchAll THEN SelectSeq(iterable, match) ELSE iterable

\* Variant of query_iterable that slices without sorting.
query_iterable_NoSort(iterable, pattern, limit, offset) ==
    LET filtered == query_filter(iterable, pattern)
    IN  IF limit = NoLimit
        THEN IF offset > 0 THEN islice(filtered, offset, NoLimit)
             ELSE filtered
        ELSE islice(filtered, offset, <<offset + limit[1]>>)

\* Variant of query_iterable whose match-all short-circuit returns at once.
query_iterable_EarlyReturn(iterable, pattern, limit, offset) ==
    LET filtered == query_filter(iterable, pattern)
    IN  IF normalize(pattern) = MatchAll THEN iterable
        ELSE IF limit = NoLimit
        THEN IF offset > 0 THEN islice(sorted(filtered), offset, NoLimit)
             ELSE filtered
        ELSE islice(sorted(filtered), offset, <<offset + limit[1]>>)

query_iterable(iterable, pattern, limit, offset) ==
    LET filtered == query_filter(iterable, pattern)
    IN  IF limit = NoLimit
        THEN IF offset > 0 THEN islice(sorted(filtered), offset, NoLimit)
             ELSE filtered
        ELSE islice(sorted(filtered), offset, <<offset + limit[1]>>)

\* The orders in which self._items.items() may yield the entries of d
ItemOrders(d) ==
    LET n == Cardinality(DOMAIN d)
        perms == {f \in [1..n -> DOMAIN d] : \A i, j \in 1..n : f[i] = f[j] => i = j}
    IN  {[i \in 1..n |-> <<f[i], d[f[i]]>>] : f \in perms}

DictStore_query(entries, pattern, limit, offset) ==
    query_iterable(entries, pattern, limit, offset)

\* Shim over a DictStore child: put, delete and query call the child's
Shim_put(d, key, value) == DictStore_put(d, key, value)

Shim_delete(d, key) == DictStore_delete(d, key).items

Shim_query(entries, pattern, limit, offset) ==
    DictStore_query(entries, pattern, limit, offset)

-----------------------------------------------------------------------------
(* Cache(Shim) over child = backing and cache, both DictStores.            *)
(* Each operator computes one observable of the whole method.              *)

Cache_get_value(c, b, key) ==
    IF DictStore_get(c, key) = None THEN DictStore_get(b, key)
    ELSE DictStore_get(c, key)

\* Variant of Cache.get without the populate step (line 168 dropped).
Cache_get_cache_NoPopulate(c, b, key) == c

\* Variant of the populate step that writes nothing.
Cache_get_populate_Skip(c, key, value) == c

\* self.cache.put(key, value) in Cache.get
Cache_get_populate(c, key, value) == DictStore_put(c, key, value)

\* Variant of Cache.get that populates the cache whatever the child returned.
Cache_get_cache_AlwaysPopulate(c, b, key) ==
    IF DictStore_get(c, key) = None
    THEN Cache_get_populate(c, key, DictStore_get(b, key))
    ELSE c

Cache_get_cache(c, b, key) ==
    IF DictStore_get(c, key) = None /\ DictStore_get(b, key) # None
    THEN Cache_get_populate(c, key, DictStore_get(b, key))
    ELSE c

\* The calls Cache.get makes on the two wrapped stores, in order
Cache_get_calls(c, b, key) ==
    IF DictStore_get(c, key) # None THEN <<"cache.get">>
    ELSE IF DictStore_get(b, key) = None THEN <<"cache.get", "child.get">>
    ELSE <<"cache.get", "child.get", "cache.put">>

\* Variant of Cache.query that is served from the cache store.
Cache_query_store_FromCache(c, b) == c

\* Cache inherits Shim.query: the store queried is self.child
Cache_query_store(c, b) == b

Cache_query_calls == <<"child.query">>

\* Variant of Cache.put that writes the child only (line 172 dropped).
Cache_put_cache_Skip(c, key, value) == c

Cache_put_cache(c, key, value) == DictStore_put(c, key, value)

\* Variant of Cache.put that writes the cache only (line 173 dropped).
Cache_put_child_NoWrite(b, key, value) == b

Cache_put_child(b, key, value) == DictStore_put(b, key, value)

\* Variant of Cache.delete that leaves the cache entry (line 176 dropped).
Cache_delete_cache_Keep(c, key) == c

Cache_delete_cache(c, key) == DictStore_delete(c, key).items

\* Variant of Cache.delete that leaves the child entry (line 177 dropped).
Cache_delete_child_Keep(b, key) == b

Cache_delete_child(b, key) == DictStore_delete(b, key).items

\* Variant of Cache.contains that asks the cache store only.
Cache_contains_CacheOnly(c, b, key) == DictStore_contains(c, key)

Cache_contains(c, b, key) ==
    DictStore_contains(c, key) \/ DictStore_contains(b, key)

-----------------------------------------------------------------------------
(* Cache methods over wrapped stores whose calls can fail. fail = i > 0    *)
(* makes the i-th call on a wrapped store raise; a call that raises leaves *)
(* its store as it was. Cache has no try/except, so the exception leaves   *)
(* the method at that call.                                                *)

Outcome(c, b, ret, raised, calls) ==
    [cache |-> c, backing |-> b, ret |-> ret, raised |-> raised, calls |-> calls]

Cache_get_run(c, b, key, fail) ==
    IF fail = 1 THEN Outcome(c, b, None, "Error", <<"cache.get">>)
    ELSE IF DictStore_get(c, key) # None
    THEN Outcome(c, b, DictStore_get(c, key), None, <<"cache.get">>)
    ELSE IF fail = 2 THEN Outcome(c, b, None, "Error", <<"cache.get", "child.get">>)
    ELSE IF DictStore_get(b, key) = None
    THEN Outcome(c, b, None, None, <<"cache.get", "child.get">>)
    ELSE IF fail = 3
    THEN Outcome(c, b, None, "Error", <<"cache.get", "child.get", "cache.put">>)
    ELSE Outcome(Cache_get_populate(c, key, DictStore_get(b, key)), b,
                 DictStore_get(b, key), None,
                 <<"cache.get", "child.get", "cache.put">>)

\* Variant of Cache.put that undoes the cache write when the child fails.
Cache_put_run_Rollback(c, b, key, value, fail) ==
    IF fail = 1 THEN Outcome(c, b, None, "Error", <<"cache.put">>)
    ELSE IF fail = 2
    THEN Outcome(c, b, None, "Error", <<"cache.put", "child.put">>)
    ELSE Outcome(Cache_put_cache(c, key, value), Cache_put_child(b, key, value),
                 None, None, <<"cache.put", "child.put">>)

Cache_put_run(c, b, key, value, fail) ==
    IF fail = 1 THEN Outcome(c, b, None, "Error", <<"cache.put">>)
    ELSE IF fail = 2
    THEN Outcome(Cache_put_cache(c, key, value), b, None, "Error",
                 <<"cache.put", "child.put">>)
    ELSE Outcome(Cache_put_cache(c, key, value), Cache_put_child(b, key, value),
                 None, None, <<"cache.put", "child.put">>)

Cache_delete_run(c, b, key, fail) ==
    IF fail = 1 THEN Outcome(c, b, None, "Error", <<"cache.delete">>)
    ELSE IF fail = 2
    THEN Outcome(Cache_delete_cache(c, key), b, None, "Error",
                 <<"cache.delete", "child.delete">>)
    ELSE Outcome(Cache_delete_cache(c, key), Cache_delete_child(b, key),
                 None, None, <<"cache.delete", "child.delete">>)

-----------------------------------------------------------------------------
(* Serialized calls on one Cache instance *)

Snapshot == [items |-> items, cache |-> cache, backing |-> backing]

\* raised: the exception that left the call (None: it returned);
\* calls: the calls made on wrapped stores, in order;
\* ref: what the same call returned on the reference store;
\* fail: which of the calls on the wrapped stores raised (0: none)
Call(op, key, value, ret) ==
    [op |-> op, key |-> key, value |-> value, ret |-> ret,
     limit |-> NoLimit, offset |-> 0, entries |-> <<>>,
     raised |-> None, calls |-> <<>>, ref |-> None, args |-> <<>>, fail |-> 0]

\* A completed query: key is the pattern, entries the order of iteration
QueryCall(op, pattern, limit, offset, entries, ret) ==
    [op |-> op, key |-> pattern, value |-> None, ret |-> ret,
     limit |-> limit, offset |-> offset, entries |-> entries,
     raised |-> None, calls |-> <<>>, ref |-> None, args |-> <<>>, fail |-> 0]

NoCall == Call("none", <<>>, None, None)

NormKeys(K) == {normalize(k) : k \in K}

Threads == {"t1", "t2"}

NoFrame == [op |-> "none", key |-> <<>>, value |-> None]

NoPending == [kind |-> "none"]

ThreadsAtStart ==
    /\ pc = [t \in Threads |-> "start"]
    /\ frame = [t \in Threads |-> NoFrame]
    /\ hist = <<>>
    /\ pending = NoPending

AllStores(NK) == UNION {[D -> Values] : D \in SUBSET NK}

Init ==
    /\ items = EmptyItems
    /\ cache \in AllStores(NormKeys(CacheKeys))
    /\ backing \in AllStores(NormKeys(CacheKeys))
    /\ last = NoCall
    /\ old = Snapshot
    /\ ThreadsAtStart

CacheGet(key) ==
    /\ cache' = Cache_get_cache(cache, backing, key)
    /\ last' = [Call("Cache.get", key, None, Cache_get_value(cache, backing, key))
                  EXCEPT !.calls = Cache_get_calls(cache, backing, key)]
    /\ old' = Snapshot
    /\ UNCHANGED conc
    /\ UNCHANGED <<items, backing>>

CachePut(key, value) ==
    /\ cache' = Cache_put_cache(cache, key, value)
    /\ backing' = Cache_put_child(backing, key, value)
    /\ last' = Call("Cache.put", key, value, None)
    /\ old' = Snapshot
    /\ UNCHANGED conc
    /\ UNCHANGED items

CacheDelete(key) ==
    /\ cache' = Cache_delete_cache(cache, key)
    /\ backing' = Cache_delete_child(backing, key)
    /\ last' = Call("Cache.delete", key, None, None)
    /\ old' = Snapshot
    /\ UNCHANGED conc
    /\ UNCHANGED items

CacheContains(key) ==
    /\ last' = Call("Cache.contains", key, None, Cache_contains(cache, backing, key))
    /\ old' = Snapshot
    /\ UNCHANGED conc
    /\ UNCHANGED <<items, cache, backing>>

\* query(pattern, limit, offset) with the returned iterable fully consumed
CacheQuery(pattern, limit, offset) ==
    /\ \E entries \in ItemOrders(Cache_query_store(cache, backing)) :
          last' = [QueryCall("Cache.query", pattern, limit, offset, entries,
                             Shim_query(entries, pattern, limit, offset))
                      EXCEPT !.calls = Cache_query_calls]
    /\ old' = Snapshot
    /\ UNCHANGED conc
    /\ UNCHANGED <<items, cache, backing>>

Next ==
    \/ \E key \in CacheKeys : CacheGet(key)
    \/ \E key \in CacheKeys, value \in Values : CachePut(key, value)
    \/ \E key \in CacheKeys : CacheDelete(key)
    \/ \E key \in CacheKeys : CacheContains(key)
    \/ \E pattern \in CachePatterns, limit \in CacheLimits, offset \in CacheOffsets :
          CacheQuery(pattern, limit, offset)

Spec == Init /\ [][Next]_vars

-----------------------------------------------------------------------------
(* Serialized calls on one stand-alone DictStore *)

InitDict ==
    /\ items = EmptyItems
    /\ cache = EmptyItems
    /\ backing = EmptyItems
    /\ last = NoCall
    /\ old = Snapshot
    /\ ThreadsAtStart

DictGet(key) ==
    /\ last' = Call("DictStore.get", key, None, DictStore_get(items, key))
    /\ old' = Snapshot
    /\ UNCHANGED conc
    /\ UNCHANGED <<items, cache, backing>>

DictPut(key, value) ==
    /\ \/ normalize(key) \in DOMAIN items
       \/ Cardinality(DOMAIN items) < MaxItems
    /\ items' = DictStore_put(items, key, value)
    /\ last' = Call("DictStore.put", key, value, None)
    /\ old' = Snapshot
    /\ UNCHANGED conc
    /\ UNCHANGED <<cache, backing>>

DictDelete(key) ==
    /\ items' = DictStore_delete(items, key).items
    /\ last' = Call("DictStore.delete", key, None, DictStore_delete(items, key).raised)
    /\ old' = Snapshot
    /\ UNCHANGED conc
    /\ UNCHANGED <<cache, backing>>

DictContains(key) ==
    /\ last' = Call("DictStore.contains", key, None, DictStore_contains(items, key))
    /\ old' = Snapshot
    /\ UNCHANGED conc
    /\ UNCHANGED <<items, cache, backing>>

NextDict ==
    \/ \E key \in Keys : DictGet(key)
    \/ \E key \in Keys, value \in Values : DictPut(key, value)
    \/ \E key \in Keys : DictDelete(key)
    \/ \E key \in Keys : DictContains(key)

SpecDict == InitDict /\ [][NextDict]_vars

-----------------------------------------------------------------------------
(* One query on a DictStore holding any contents that puts can build *)

BoundedStores(NK) ==
    UNION {[D -> QueryValues] : D \in {X \in SUBSET NK : Cardinality(X) <= MaxItems}}

InitQuery ==
    /\ items \in BoundedStores(NormKeys(Keys))
    /\ cache = EmptyItems
    /\ backing = EmptyItems
    /\ last = NoCall
    /\ old = Snapshot
    /\ ThreadsAtStart

\* query(pattern, limit, offset) with the returned iterable fully consumed
DictQuery(pattern, limit, offset) ==
    /\ last = NoCall
    /\ \E entries \in ItemOrders(items) :
          last' = QueryCall("DictStore.query", pattern, limit, offset, entries,
                            DictStore_query(entries, pattern, limit, offset))
    /\ old' = Snapshot
    /\ UNCHANGED conc
    /\ UNCHANGED <<items, cache, backing>>

NextQuery ==
    \E pattern \in Patterns, limit \in Limits, offset \in Offsets :
        DictQuery(pattern, limit, offset)

SpecQuery == InitQuery /\ [][NextQuery]_vars

-----------------------------------------------------------------------------
(* Calls on a NullStore, directly and through a Shim (or a Cache, which    *)
(* inherits Shim.query) whose child is the NullStore                       *)

\* The ways to call query(pattern, limit=None, offset=0) positionally
QueryArgs ==
    {<<p>> : p \in Patterns}
    \cup {<<p, l>> : p \in Patterns, l \in Limits}
    \cup {<<p, l, o>> : p \in Patterns, l \in Limits, o \in Offsets}

NullCall(op, key, value, args, r) ==
    [Call(op, key, value, r.ret) EXCEPT !.raised = r.raised, !.args = args]

NullGet(key) ==
    /\ last' = Call("NullStore.get", key, None, NullStore_get(key))
    /\ old' = Snapshot
    /\ UNCHANGED conc
    /\ UNCHANGED <<items, cache, backing>>

\* put and delete: pass
NullPut(key, value) ==
    /\ last' = Call("NullStore.put", key, value, None)
    /\ old' = Snapshot
    /\ UNCHANGED conc
    /\ UNCHANGED <<items, cache, backing>>

NullDelete(key) ==
    /\ last' = Call("NullStore.delete", key, None, None)
    /\ old' = Snapshot
    /\ UNCHANGED conc
    /\ UNCHANGED <<items, cache, backing>>

NullQuery(args) ==
    /\ last' = NullCall("NullStore.query", args[1], None, args, NullStore_query(args))
    /\ old' = Snapshot
    /\ UNCHANGED conc
    /\ UNCHANGED <<items, cache, backing>>

ShimNullQuery(args) ==
    /\ last' = NullCall("Shim.query", args[1], None, args,
                        NullStore_query(Shim_query_forward(args)))
    /\ old' = Snapshot
    /\ UNCHANGED conc
    /\ UNCHANGED <<items, cache, backing>>

NextNull ==
    \/ \E key \in Keys : NullGet(key)
    \/ \E key \in Keys, value \in Values : NullPut(key, value)
    \/ \E key \in Keys : NullDelete(key)
    \/ \E args \in QueryArgs : NullQuery(args)
    \/ \E args \in QueryArgs : ShimNullQuery(args)

SpecNull == InitDict /\ [][NextNull]_vars

-----------------------------------------------------------------------------
(* The same serialized calls made on a Cache (cache, backing) and on one   *)
(* reference DictStore (items). The cache store may drop any entry between *)
(* calls, as a bounded store would; pending remembers the last key dropped.*)

InitEquiv ==
    /\ cache = EmptyItems
    /\ backing \in AllStores(NormKeys(CacheKeys))
    /\ items = backing
    /\ last = NoCall
    /\ old = Snapshot
    /\ ThreadsAtStart

EquivGet(key) ==
    /\ cache' = Cache_get_cache(cache, backing, key)
    /\ last' = [Call("Cache.get", key, None, Cache_get_value(cache, backing, key))
                  EXCEPT !.ref = DictStore_get(items, key)]
    /\ old' = Snapshot
    /\ UNCHANGED conc
    /\ UNCHANGED <<items, backing>>

EquivPut(key, value) ==
    /\ cache' = Cache_put_cache(cache, key, value)
    /\ backing' = Cache_put_child(backing, key, value)
    /\ items' = DictStore_put(items, key, value)
    /\ last' = Call("Cache.put", key, value, None)
    /\ old' = Snapshot
    /\ UNCHANGED conc

EquivDelete(key) ==
    /\ cache' = Cache_delete_cache(cache, key)
    /\ backing' = Cache_delete_child(backing, key)
    /\ items' = DictStore_delete(items, key).items
    /\ last' = Call("Cache.delete", key, None, None)
    /\ old' = Snapshot
    /\ UNCHANGED conc

EquivContains(key) ==
    /\ last' = [Call("Cache.contains", key, None, Cache_contains(cache, backing, key))
                  EXCEPT !.ref = DictStore_contains(items, key)]
    /\ old' = Snapshot
    /\ UNCHANGED conc
    /\ UNCHANGED <<items, cache, backing>>

\* Both dicts got the same puts and deletes, so they iterate in the same
\* order whenever they hold the same keys.
EquivQuery(pattern, limit, offset) ==
    /\ \E entries \in ItemOrders(Cache_query_store(cache, backing)),
          refEntries \in ItemOrders(items) :
          /\ DOMAIN backing = DOMAIN items =>
                \A i \in 1..Len(entries) : entries[i][1] = refEntries[i][1]
          /\ last' = [QueryCall("Cache.query", pattern, limit, offset, entries,
                                Shim_query(entries, pattern, limit, offset))
                        EXCEPT !.ref = DictStore_query(refEntries, pattern,
                                                       limit, offset)]
    /\ old' = Snapshot
    /\ UNCHANGED conc
    /\ UNCHANGED <<items, cache, backing>>

\* The cache store drops one of its entries on its own
Evict(key) ==
    /\ normalize(key) \in DOMAIN cache
    /\ cache' = dict_del(cache, normalize(key)).items
    /\ pending' = [kind |-> "evicted", key |-> normalize(key)]
    /\ UNCHANGED <<pc, frame, hist>>
    /\ UNCHANGED <<items, backing, last, old>>

NextEquiv ==
    \/ \E key \in CacheKeys : EquivGet(key)
    \/ \E key \in CacheKeys, value \in Values : EquivPut(key, value)
    \/ \E key \in CacheKeys : EquivDelete(key)
    \/ \E key \in CacheKeys : EquivContains(key)
    \/ \E pattern \in CachePatterns, limit \in CacheLimits, offset \in CacheOffsets :
          EquivQuery(pattern, limit, offset)
    \/ \E key \in CacheKeys : Evict(key)

SpecEquiv == InitEquiv /\ [][NextEquiv]_vars

-----------------------------------------------------------------------------
(* One query on a DictStore whose result is consumed after later puts and  *)
(* deletes. query_iterable sorts, and so reads every entry, only on the    *)
(* paged paths; the unpaged path returns the generator over the dict's     *)
(* items view, or for the match-all pattern the view itself, unread.       *)

\* What DictStore.query hands back, before anything is read from it
query_result(d, entries, pattern, limit, offset) ==
    IF limit = NoLimit /\ offset = 0
    THEN IF normalize(pattern) = MatchAll
         THEN [kind |-> "view"]
         ELSE [kind |-> "generator", used |-> Cardinality(DOMAIN d),
               keys |-> DOMAIN d]
    ELSE [kind |-> "list",
          seq |-> query_iterable(entries, pattern, limit, offset)]

Unconsumed == pending.kind \in {"view", "generator", "list"}

LazyQuery(pattern, limit, offset) ==
    /\ pending = NoPending
    /\ \E entries \in ItemOrders(items) :
          /\ pending' = query_result(items, entries, pattern, limit, offset)
          /\ last' = QueryCall("DictStore.query", pattern, limit, offset,
                               entries, <<>>)
    /\ old' = Snapshot
    /\ UNCHANGED <<pc, frame, hist>>
    /\ UNCHANGED <<items, cache, backing>>

\* put between the call of query and the consumption of its result
LazyPut(key, value) ==
    /\ Unconsumed
    /\ \/ normalize(key) \in DOMAIN items
       \/ Cardinality(DOMAIN items) < MaxItems
    /\ items' = DictStore_put(items, key, value)
    /\ UNCHANGED conc
    /\ UNCHANGED <<cache, backing, last, old>>

\* delete between the call of query and the consumption of its result
LazyDelete(key) ==
    /\ Unconsumed
    /\ items' = DictStore_delete(items, key).items
    /\ UNCHANGED conc
    /\ UNCHANGED <<cache, backing, last, old>>

\* list(result): a dict iterator raises RuntimeError when the dict's size
\* differs from the size it had when the iterator was made; with the same
\* size but other keys it raises or yields the present entries.
LazyConsume ==
    /\ Unconsumed
    /\ \/ /\ pending.kind = "list"
          /\ last' = [last EXCEPT !.ret = pending.seq]
       \/ /\ pending.kind = "view"
          /\ \E entries \in ItemOrders(items) :
                last' = [last EXCEPT !.ret = entries]
       \/ /\ pending.kind = "generator"
          /\ Cardinality(DOMAIN items) = pending.used
          /\ \E entries \in ItemOrders(items) :
                last' = [last EXCEPT !.ret = query_filter(entries, last.key)]
       \/ /\ pending.kind = "generator"
          /\ DOMAIN items # pending.keys
          /\ last' = [last EXCEPT !.raised = "RuntimeError"]
    /\ pending' = [kind |-> "consumed"]
    /\ UNCHANGED <<pc, frame, hist>>
    /\ UNCHANGED <<items, cache, backing, old>>

InitLazy ==
    /\ items \in BoundedStores(NormKeys(CacheKeys))
    /\ cache = EmptyItems
    /\ backing = EmptyItems
    /\ last = NoCall
    /\ old = Snapshot
    /\ ThreadsAtStart

NextLazy ==
    \/ \E pattern \in CachePatterns, limit \in CacheLimits, offset \in CacheOffsets :
          LazyQuery(pattern, limit, offset)
    \/ \E key \in CacheKeys, value \in QueryValues : LazyPut(key, value)
    \/ \E key \in CacheKeys : LazyDelete(key)
    \/ LazyConsume

SpecLazy == InitLazy /\ [][NextLazy]_vars

-----------------------------------------------------------------------------
(* The class hierarchy: which class defines which method, and what ABC     *)
(* does when a class is instantiated. A subclass is given by its base and  *)
(* the methods it defines itself (own[i] for MethodNames[i]); no own       *)
(* method stands for the base class itself.                                *)

MethodNames == <<"get", "put", "delete", "query", "contains">>

\* Variant of Store in which query is not decorated with @abstractmethod.
AbstractMethods_NoQuery == {"get", "put", "delete"}

AbstractMethods == {"get", "put", "delete", "query"}

ClassNames == {"Store", "NullStore", "Shim", "Cache", "DictStore"}

ClassBase ==
    [Store |-> "ABC", NullStore |-> "Store", Shim |-> "Store",
     Cache |-> "Shim", DictStore |-> "Store"]

ClassDefines ==
    [Store     |-> {"get", "put", "delete", "query", "contains"},
     NullStore |-> {"get", "put", "delete", "query"},
     Shim      |-> {"get", "put", "delete", "query"},
     Cache     |-> {"get", "put", "delete", "contains"},
     DictStore |-> {"get", "put", "delete", "contains", "query"}]

OwnMethods(own) == {MethodNames[i] : i \in {j \in 1..Len(MethodNames) : own[j]}}

RECURSIVE DefinedIn(_, _)
\* The class of base's method resolution order that provides method
DefinedIn(base, method) ==
    IF method \in ClassDefines[base] THEN base
    ELSE DefinedIn(ClassBase[base], method)

Resolve(base, own, method) ==
    IF method \in OwnMethods(own) THEN "subclass" ELSE DefinedIn(base, method)

\* __abstractmethods__: the abstract methods that nothing overrides
Unimplemented(base, own) ==
    {m \in AbstractMethods : Resolve(base, own, m) = "Store"}

Construct(base, own) ==
    /\ last' = [Call("construct", <<>>, base, None)
                   EXCEPT !.args = own,
                          !.raised = IF Unimplemented(base, own) # {}
                                     THEN "TypeError" ELSE None]
    /\ old' = Snapshot
    /\ UNCHANGED conc
    /\ UNCHANGED <<items, cache, backing>>

\* Look a method up on the object constructed last
Invoke(method) ==
    /\ last.op \in {"construct", "invoke"}
    /\ last.raised = None
    /\ last' = [last EXCEPT !.op = "invoke", !.calls = <<method>>,
                            !.ret = Resolve(last.value, last.args, method)]
    /\ old' = Snapshot
    /\ UNCHANGED conc
    /\ UNCHANGED <<items, cache, backing>>

NextClass ==
    \/ \E base \in ClassNames, own \in [1..Len(MethodNames) -> BOOLEAN] :
          Construct(base, own)
    \/ \E i \in 1..Len(MethodNames) : Invoke(MethodNames[i])

SpecClass == InitDict /\ [][NextClass]_vars

-----------------------------------------------------------------------------
(* Serialized calls on one Cache whose wrapped stores can fail *)

FailCall(op, key, value, fail, r) ==
    [Call(op, key, value, r.ret)
        EXCEPT !.raised = r.raised, !.calls = r.calls, !.fail = fail]

\* fail ranges over no failure and each call the method gets to make
FailPoints(calls) == 0..Len(calls)

FailGet(key, fail) ==
    /\ fail \in FailPoints(Cache_get_calls(cache, backing, key))
    /\ LET r == Cache_get_run(cache, backing, key, fail)
       IN  /\ cache' = r.cache
           /\ backing' = r.backing
           /\ last' = FailCall("Cache.get", key, None, fail, r)
    /\ old' = Snapshot
    /\ UNCHANGED conc
    /\ UNCHANGED items

FailPut(key, value, fail) ==
    /\ LET r == Cache_put_run(cache, backing, key, value, fail)
       IN  /\ fail \in FailPoints(<<"cache.put", "child.put">>)
           /\ cache' = r.cache
           /\ backing' = r.backing
           /\ last' = FailCall("Cache.put", key, value, fail, r)
    /\ old' = Snapshot
    /\ UNCHANGED conc
    /\ UNCHANGED items

FailDelete(key, fail) ==
    /\ LET r == Cache_delete_run(cache, backing, key, fail)
       IN  /\ fail \in FailPoints(<<"cache.delete", "child.delete">>)
           /\ cache' = r.cache
           /\ backing' = r.backing
           /\ last' = FailCall("Cache.delete", key, None, fail, r)
    /\ old' = Snapshot
    /\ UNCHANGED conc
    /\ UNCHANGED items

NextFail ==
    \/ \E key \in CacheKeys, fail \in 0..3 : FailGet(key, fail)
    \/ \E key \in CacheKeys, value \in Values, fail \in 0..2 : FailPut(key, value, fail)
    \/ \E key \in CacheKeys, fail \in 0..2 : FailDelete(key, fail)

SpecFail == Init /\ [][NextFail]_vars

-----------------------------------------------------------------------------
(* Two unsynchronized threads, each making one call on the same Cache.     *)
(* A call on one of the wrapped DictStores is one step; the steps of the   *)
(* two threads interleave freely.                                          *)

InitConc ==
    /\ items = EmptyItems
    /\ cache = EmptyItems
    /\ backing \in AllStores(NormKeys(CacheKeys))
    /\ last = NoCall
    /\ old = Snapshot
    /\ ThreadsAtStart

Step(t, label, next, fr) ==
    /\ pc' = [pc EXCEPT ![t] = next]
    /\ frame' = [frame EXCEPT ![t] = fr]
    /\ hist' = Append(hist, <<t, label>>)
    /\ UNCHANGED <<items, last, old, pending>>

\* value = self.cache.get(key); if value is None: ...
GetCache(t, key) ==
    /\ pc[t] = "start"
    /\ LET v == DictStore_get(cache, key)
       IN  Step(t, "get_cache", IF v = None THEN "get_child" ELSE "done",
                [op |-> "get", key |-> key, value |-> v])
    /\ UNCHANGED <<cache, backing>>

\* value = self.child.get(key); if value is not None: ...
GetChild(t) ==
    /\ pc[t] = "get_child"
    /\ LET v == DictStore_get(backing, frame[t].key)
       IN  Step(t, "get_child", IF v # None THEN "get_populate" ELSE "done",
                [frame[t] EXCEPT !.value = v])
    /\ UNCHANGED <<cache, backing>>

\* self.cache.put(key, value); return value
GetPopulate(t) ==
    /\ pc[t] = "get_populate"
    /\ cache' = Cache_get_populate(cache, frame[t].key, frame[t].value)
    /\ Step(t, "get_populate", "done", frame[t])
    /\ UNCHANGED backing

PutCache(t, key, value) ==
    /\ pc[t] = "start"
    /\ cache' = Cache_put_cache(cache, key, value)
    /\ Step(t, "put_cache", "put_child", [op |-> "put", key |-> key, value |-> value])
    /\ UNCHANGED backing

PutChild(t) ==
    /\ pc[t] = "put_child"
    /\ backing' = Cache_put_child(backing, frame[t].key, frame[t].value)
    /\ Step(t, "put_child", "done", frame[t])
    /\ UNCHANGED cache

DeleteCache(t, key) ==
    /\ pc[t] = "start"
    /\ cache' = Cache_delete_cache(cache, key)
    /\ Step(t, "delete_cache", "delete_child", [op |-> "delete", key |-> key, value |-> None])
    /\ UNCHANGED backing

DeleteChild(t) ==
    /\ pc[t] = "delete_child"
    /\ backing' = Cache_delete_child(backing, frame[t].key)
    /\ Step(t, "delete_child", "done", frame[t])
    /\ UNCHANGED cache

NextConc ==
    \/ \E t \in Threads, key \in CacheKeys : GetCache(t, key)
    \/ \E t \in Threads : GetChild(t)
    \/ \E t \in Threads : GetPopulate(t)
    \/ \E t \in Threads, key \in CacheKeys, value \in Values : PutCache(t, key, value)
    \/ \E t \in Threads : PutChild(t)
    \/ \E t \in Threads, key \in CacheKeys : DeleteCache(t, key)
    \/ \E t \in Threads : DeleteChild(t)

SpecConc == InitConc /\ [][NextConc]_vars

-----------------------------------------------------------------------------
(* Serialized calls on a Cache that starts with an empty cache store *)

SpecCoherent == InitConc /\ [][Next]_vars

-----------------------------------------------------------------------------
(* Properties of the serialized Cache (specification Spec) *)

\* C1: read-through. If the backing store holds k -> v and the cache store
\* does not hold k, Cache.get(k) returns v and afterwards a get(k) on the
\* inner cache store returns v as well.
CacheReadThrough ==
    (/\ last.op = "Cache.get"
     /\ ~DictStore_contains(old.cache, last.key)
     /\ DictStore_contains(old.backing, last.key))
    => /\ last.ret = DictStore_get(old.backing, last.key)
       /\ DictStore_get(cache, last.key) = DictStore_get(old.backing, last.key)

CacheReadThroughWitness ==
    /\ last.op = "Cache.get"
    /\ ~DictStore_contains(old.cache, last.key)
    /\ DictStore_get(old.backing, last.key) = "1"
    /\ last.ret = "1"
    /\ DictStore_get(cache, last.key) = "1"

\* C2: write-through. From any prior contents of the two stores, after
\* Cache.put(k, v) both backing.get(k) and cache.get(k) return v.
CacheWriteThrough ==
    last.op = "Cache.put"
    => /\ DictStore_get(backing, last.key) = last.value
       /\ DictStore_get(cache, last.key) = last.value

CacheWriteThroughWitness ==
    /\ last.op = "Cache.put"
    /\ last.value = "2"
    /\ DictStore_get(old.backing, last.key) = "1"
    /\ DictStore_get(old.cache, last.key) = "1"
    /\ DictStore_get(backing, last.key) = "2"
    /\ DictStore_get(cache, last.key) = "2"

\* C3: invalidate on delete. From any prior contents (k in neither, one or
\* both stores), after Cache.delete(k) both cache.get(k) and backing.get(k)
\* return absent, and so does a following Cache.get(k).
CacheInvalidateOnDelete ==
    last.op = "Cache.delete"
    => /\ DictStore_get(cache, last.key) = None
       /\ DictStore_get(backing, last.key) = None
       /\ Cache_get_value(cache, backing, last.key) = None

CacheInvalidateOnDeleteWitness ==
    /\ last.op = "Cache.delete"
    /\ DictStore_get(old.cache, last.key) = "1"
    /\ DictStore_get(old.backing, last.key) = "2"
    /\ ~DictStore_contains(cache, last.key)
    /\ ~DictStore_contains(backing, last.key)

-----------------------------------------------------------------------------
(* Properties of the concurrent Cache (specification SpecConc) *)

\* Step a was taken, and before step b
Before(a, b) ==
    \E i, j \in 1..Len(hist) : i < j /\ hist[i] = a /\ hist[j] = b

AllDone == \A t \in Threads : pc[t] = "done"

\* A get by tg and a put by tp on the same normalized key, where the get
\* read the backing store before the put wrote it, and populated the cache
\* after the put wrote the cache.
PutGetRace(tg, tp) ==
    /\ frame[tg].op = "get"
    /\ frame[tp].op = "put"
    /\ normalize(frame[tg].key) = normalize(frame[tp].key)
    /\ Before(<<tg, "get_child">>, <<tp, "put_child">>)
    /\ Before(<<tp, "put_cache">>, <<tg, "get_populate">>)

\* C4: without synchronization, a put(k, v2) can interleave with a get(k)
\* that missed the cache and read the older v1 from the backing store so
\* that, after both calls have completed, the cache store holds v1 for k
\* while the backing store holds v2 (and the get returned v1).
StaleAfterPutGetRace ==
    \A tg, tp \in Threads :
        (AllDone /\ PutGetRace(tg, tp)) =>
            /\ frame[tg].value = DictStore_get(old.backing, frame[tg].key)
            /\ DictStore_get(cache, frame[tg].key) = frame[tg].value
            /\ DictStore_get(backing, frame[tg].key) = frame[tp].value

StaleAfterPutGetRaceWitness ==
    /\ AllDone
    /\ PutGetRace("t1", "t2")
    /\ DictStore_get(old.backing, frame["t1"].key) = "1"
    /\ frame["t2"].value = "2"
    /\ DictStore_get(cache, frame["t1"].key) = "1"
    /\ DictStore_get(backing, frame["t1"].key) = "2"

-----------------------------------------------------------------------------
(* Properties of the DictStore (specification SpecDict) *)

\* C5: contains agrees with get for every Store implementation: the default
\* Store.contains (NullStore, Shim), DictStore's override and Cache over its
\* two stores. For every key k, contains(k) is true exactly when get(k) does
\* not return absent.
ContainsAgreesWithGet ==
    \A k \in Keys :
        /\ NullStore_contains(k) <=> (NullStore_get(k) # None)
        /\ Shim_contains(items, k) <=> (Shim_get(items, k) # None)
        /\ DictStore_contains(items, k) <=> (DictStore_get(items, k) # None)
        /\ Cache_contains(cache, items, k) <=> (Cache_get_value(cache, items, k) # None)

\* C6: put/get with last write wins. After put(k, v) every key with the
\* same normalized form reads v; a put or delete leaves the result of get
\* unchanged for every key with another normalized form; get and contains
\* change nothing. So get keeps returning the most recent put on its
\* normalized key until a delete of that normalized key.
PutGetLastWriteWins ==
    /\ last.op = "DictStore.put" =>
          \A k \in Keys : normalize(k) = normalize(last.key)
                            => DictStore_get(items, k) = last.value
    /\ last.op \in {"DictStore.put", "DictStore.delete"} =>
          \A k \in Keys : normalize(k) # normalize(last.key)
                            => DictStore_get(items, k) = DictStore_get(old.items, k)
    /\ last.op \in {"DictStore.get", "DictStore.contains"} => items = old.items
    /\ last.op = "DictStore.get" => last.ret = DictStore_get(old.items, last.key)

PutGetLastWriteWinsWitness ==
    /\ last.op = "DictStore.put"
    /\ last.key = <<"a">>
    /\ last.value = "2"
    /\ DictStore_get(old.items, <<"/", "a">>) = "1"
    /\ DictStore_get(items, <<"/", "a">>) = "2"
    /\ DictStore_get(items, <<"a", "a">>) = "1"

\* C7: delete. After delete(k), get(k) returns absent and contains(k) is
\* false; no exception leaves delete, also when k was absent, and then the
\* store is unchanged; no entry under another key is touched.
DeleteRemovesOnlyKey ==
    last.op = "DictStore.delete" =>
        /\ last.ret = None
        /\ DictStore_get(items, last.key) = None
        /\ ~DictStore_contains(items, last.key)
        /\ ~DictStore_contains(old.items, last.key) => items = old.items
        /\ \A k \in DOMAIN old.items :
              k # normalize(last.key) => k \in DOMAIN items /\ items[k] = old.items[k]

DeleteRemovesOnlyKeyWitness ==
    /\ last.op = "DictStore.delete"
    /\ ~DictStore_contains(old.items, last.key)
    /\ Cardinality(DOMAIN old.items) = 2
    /\ items = old.items
    /\ last.ret = None

-----------------------------------------------------------------------------
(* Properties of query (specification SpecQuery) *)

\* The prefixes of key, as end positions, that the first i characters of
\* pat can match when every "*" stands for any string of characters.
RECURSIVE WildEnds(_, _, _)
WildEnds(pat, key, i) ==
    IF i = 0 THEN {0}
    ELSE LET before == WildEnds(pat, key, i - 1)
         IN  IF pat[i] = "*"
             THEN {j \in 0..Len(key) : \E j0 \in before : j0 <= j}
             ELSE {j \in 1..Len(key) : (j - 1) \in before /\ key[j] = pat[i]}

WildMatch(pat, key) == Len(key) \in WildEnds(pat, key, Len(pat))

\* The same for the documented glob rules: a "*" on its own stands for a
\* string without separator, two or more adjacent "*" for any string.
IsDoubleStar(pat, i) ==
    \/ i > 1 /\ pat[i - 1] = "*"
    \/ i < Len(pat) /\ pat[i + 1] = "*"

RECURSIVE GlobEnds(_, _, _)
GlobEnds(pat, key, i) ==
    IF i = 0 THEN {0}
    ELSE LET before == GlobEnds(pat, key, i - 1)
         IN  IF pat[i] = "*"
             THEN {j \in 0..Len(key) :
                     \E j0 \in before :
                        /\ j0 <= j
                        /\ IsDoubleStar(pat, i) \/ \A m \in (j0 + 1)..j : key[m] # Sep}
             ELSE {j \in 1..Len(key) : (j - 1) \in before /\ key[j] = pat[i]}

GlobMatch(pat, key) == Len(key) \in GlobEnds(pat, key, Len(pat))

IsQuery == last.op = "DictStore.query"

Unpaged == last.limit = NoLimit /\ last.offset = 0

RetKeys == {last.ret[i][1] : i \in 1..Len(last.ret)}

\* Every yielded pair is an entry of the store, and no key is yielded twice
RetAreEntries ==
    /\ \A i \in 1..Len(last.ret) :
          /\ last.ret[i][1] \in DOMAIN items
          /\ last.ret[i][2] = items[last.ret[i][1]]
    /\ \A i, j \in 1..Len(last.ret) : last.ret[i][1] = last.ret[j][1] => i = j

\* C8 as stated: a single "*" matches no separator, "**" matches across
\* separators; a query without limit and offset returns exactly the entries
\* whose key matches the normalized pattern under these rules.
GlobStarStopsAtSeparator ==
    (IsQuery /\ Unpaged) =>
        /\ RetAreEntries
        /\ RetKeys = {k \in DOMAIN items : GlobMatch(normalize(last.key), k)}

\* C8 amended: "*" matches zero or more characters of any kind, the
\* separator included, exactly as "**" does; a query without limit and
\* offset returns exactly the entries whose whole key matches the normalized
\* pattern with every "*" standing for any string, so "/a*" returns "/a/".
GlobStarCrossesSeparator ==
    (IsQuery /\ Unpaged) =>
        /\ RetAreEntries
        /\ RetKeys = {k \in DOMAIN items : WildMatch(normalize(last.key), k)}

GlobStarCrossesSeparatorWitness ==
    /\ IsQuery /\ Unpaged
    /\ last.key = <<"a", "*">>
    /\ DOMAIN items = {<<"/", "a", "/">>, <<"/", "a", "a">>}
    /\ <<"/", "a", "/">> \in RetKeys
    /\ Len(last.ret) = 2

\* C9: pagination. When a limit is given or offset > 0, the result is the
\* matching entries in ascending key order with the first offset skipped and
\* at most limit yielded, whatever the order of iteration of the store, so
\* it is a function of the store contents and the arguments alone; limit 0,
\* an offset at or beyond the number of matches and a pattern matching
\* nothing give the empty sequence.
Rank(S, k) == Cardinality({x \in S : StrLess(x, k)})

InPage(S, k, limit, offset) ==
    /\ Rank(S, k) >= offset
    /\ limit = NoLimit \/ Rank(S, k) < offset + limit[1]

IsPage(ret, d, S, limit, offset) ==
    /\ \A i \in 1..Len(ret) : ret[i][1] \in S /\ ret[i][2] = d[ret[i][1]]
    /\ {ret[i][1] : i \in 1..Len(ret)} = {k \in S : InPage(S, k, limit, offset)}
    /\ \A i, j \in 1..Len(ret) : i < j => StrLess(ret[i][1], ret[j][1])

Matching == {k \in DOMAIN items : WildMatch(normalize(last.key), k)}

PaginationSorted ==
    (IsQuery /\ ~Unpaged) =>
        /\ IsPage(last.ret, items, Matching, last.limit, last.offset)
        /\ last.limit = <<0>> => last.ret = <<>>
        /\ last.offset >= Cardinality(Matching) => last.ret = <<>>
        /\ Matching = {} => last.ret = <<>>

PaginationSortedWitness ==
    /\ IsQuery
    /\ last.limit = <<1>> /\ last.offset = 1
    /\ Len(last.entries) = 2
    /\ StrLess(last.entries[2][1], last.entries[1][1])
    /\ Cardinality(Matching) = 2
    /\ last.ret = <<last.entries[1]>>

\* C10: match-all. When the normalized pattern is "/*", the form the code
\* short-circuits on, or "/**", a query without limit and offset returns
\* every stored entry exactly once, and with a limit or an offset it
\* returns that page of all entries in ascending key order.
IsMatchAll == normalize(last.key) \in {<<"/", "*">>, <<"/", "*", "*">>}

MatchAllReturnsEverything ==
    (IsQuery /\ IsMatchAll) =>
        /\ Unpaged => /\ RetAreEntries
                      /\ RetKeys = DOMAIN items
                      /\ Len(last.ret) = Cardinality(DOMAIN items)
        /\ ~Unpaged => IsPage(last.ret, items, DOMAIN items, last.limit, last.offset)

MatchAllReturnsEverythingWitness ==
    /\ IsQuery /\ Unpaged
    /\ normalize(last.key) = MatchAll
    /\ DOMAIN items = {<<"/", "a", "/">>, <<"/", "a">>}
    /\ Len(last.ret) = 2

-----------------------------------------------------------------------------
(* Properties of the NullStore (specification SpecNull) *)

\* C11: a NullStore behaves as if nothing was ever stored. After any calls,
\* get(k) returns absent for every k, put and delete change nothing, and
\* query returns an empty sequence without failing for every way of passing
\* (pattern), (pattern, limit) and (pattern, limit, offset), also when the
\* call comes through a Shim or Cache forwarding (pattern, limit, offset).
NullStoreStoresNothing ==
    /\ \A k \in Keys : NullStore_get(k) = None /\ ~NullStore_contains(k)
    /\ last.op = "NullStore.get" => last.ret = None
    /\ last.op \in {"NullStore.put", "NullStore.delete"} => last.raised = None
    /\ last.op \in {"NullStore.query", "Shim.query"} =>
          last.raised = None /\ last.ret = <<>>

-----------------------------------------------------------------------------
(* Properties of the Shim over a DictStore child (specification SpecDict) *)

\* C12: Shim forwards each of get, put, delete, query and contains to its
\* child with the same arguments, returns what the child returns and has no
\* other effect; in particular Shim.contains(k) equals child.contains(k)
\* for a child that overrides contains.
ShimForwardsVerbatim ==
    \A k \in Keys :
        /\ Shim_get(items, k) = DictStore_get(items, k)
        /\ \A v \in Values : Shim_put(items, k, v) = DictStore_put(items, k, v)
        /\ Shim_delete(items, k) = DictStore_delete(items, k).items
        /\ \A p \in Patterns, e \in ItemOrders(items) :
              Shim_query(e, p, NoLimit, 0) = DictStore_query(e, p, NoLimit, 0)
        /\ Shim_contains(items, k) <=> DictStore_contains(items, k)

-----------------------------------------------------------------------------
(* Further properties of the serialized Cache (specification Spec) *)

MatchingIn(d, pattern) == {k \in DOMAIN d : WildMatch(normalize(pattern), k)}

\* ret is what a query for (pattern, limit, offset) yields from contents d
IsQueryResult(ret, d, pattern, limit, offset) ==
    /\ \A i \in 1..Len(ret) : ret[i][1] \in DOMAIN d /\ ret[i][2] = d[ret[i][1]]
    /\ \A i, j \in 1..Len(ret) : ret[i][1] = ret[j][1] => i = j
    /\ IF limit = NoLimit /\ offset = 0
       THEN {ret[i][1] : i \in 1..Len(ret)} = MatchingIn(d, pattern)
       ELSE IsPage(ret, d, MatchingIn(d, pattern), limit, offset)

\* C13: Cache.query is never served from the cache. For every pattern,
\* limit and offset and all contents of the two stores, it returns what
\* backing.query returns for the same arguments, calls nothing on the cache
\* store and modifies neither store.
CacheQueryFromBacking ==
    last.op = "Cache.query" =>
        /\ last.entries \in ItemOrders(backing)
        /\ last.ret = DictStore_query(last.entries, last.key, last.limit, last.offset)
        /\ IsQueryResult(last.ret, backing, last.key, last.limit, last.offset)
        /\ last.calls = <<"child.query">>
        /\ cache = old.cache
        /\ backing = old.backing

CacheQueryFromBackingWitness ==
    /\ last.op = "Cache.query"
    /\ last.key = <<"*">>
    /\ DictStore_get(cache, <<"a">>) = "1"
    /\ DictStore_get(backing, <<"a">>) = "2"
    /\ DictStore_contains(cache, <<"a", "a">>)
    /\ ~DictStore_contains(backing, <<"a", "a">>)
    /\ last.ret = << <<normalize(<<"a">>), "2">> >>

\* C14: frame conditions of Cache.get. On a cache hit the value held by the
\* cache store is returned and the backing store is not called; when the
\* key is absent in both stores, absent is returned and the cache store is
\* not written; Cache.get never modifies the backing store nor a cache
\* entry other than the requested key's.
CacheGetFrame ==
    last.op = "Cache.get" =>
        /\ DictStore_get(old.cache, last.key) # None =>
              /\ last.ret = DictStore_get(old.cache, last.key)
              /\ last.calls = <<"cache.get">>
              /\ cache = old.cache
        /\ (DictStore_get(old.cache, last.key) = None
               /\ DictStore_get(old.backing, last.key) = None) =>
              /\ last.ret = None
              /\ \A i \in 1..Len(last.calls) : last.calls[i] # "cache.put"
              /\ cache = old.cache
        /\ backing = old.backing
        /\ \A k \in (DOMAIN cache) \cup (DOMAIN old.cache) :
              k # normalize(last.key) =>
                  /\ k \in DOMAIN cache
                  /\ k \in DOMAIN old.cache
                  /\ cache[k] = old.cache[k]

CacheGetFrameWitness ==
    /\ last.op = "Cache.get"
    /\ DictStore_get(old.cache, last.key) = "1"
    /\ DictStore_get(old.backing, last.key) = "2"
    /\ last.ret = "1"
    /\ last.calls = <<"cache.get">>

-----------------------------------------------------------------------------
(* Properties of the Cache over failing stores (specification SpecFail) *)

\* C15: failure propagation without rollback. When a call on a wrapped
\* store fails inside Cache.get, Cache.put or Cache.delete, the failure
\* leaves the method, no later step of the method is executed, and the
\* steps already done are not undone: a failing first step (the cache
\* store) leaves the backing store unmodified, a failing second step (the
\* backing store) leaves the cache store modified by the first.
FailurePropagates ==
    (last.op \in {"Cache.get", "Cache.put", "Cache.delete"} /\ last.fail > 0) =>
        /\ last.raised = "Error"
        /\ Len(last.calls) = last.fail
        /\ backing = old.backing
        /\ last.op = "Cache.get" => cache = old.cache
        /\ last.fail = 1 => cache = old.cache
        /\ (last.op = "Cache.put" /\ last.fail = 2) =>
              cache = DictStore_put(old.cache, last.key, last.value)
        /\ (last.op = "Cache.delete" /\ last.fail = 2) =>
              cache = DictStore_delete(old.cache, last.key).items

FailurePropagatesWitness ==
    /\ last.op = "Cache.put"
    /\ last.fail = 2
    /\ last.raised = "Error"
    /\ last.value = "2"
    /\ DictStore_get(old.cache, last.key) = "1"
    /\ DictStore_get(cache, last.key) = "2"
    /\ DictStore_get(backing, last.key) = "1"

-----------------------------------------------------------------------------
(* Properties of a query consumed later (specification SpecLazy) *)

\* C16: DictStore.query works on a snapshot of the entries taken at call
\* time. For every pattern, limit and offset, consuming the returned result
\* does not fail and yields the sequence determined by the store's
\* contents at the moment query was called, whatever puts and deletes were
\* done on the store in between.
QuerySnapshotAtCall ==
    pending.kind = "consumed" =>
        /\ last.raised = None
        /\ \E entries \in ItemOrders(old.items) :
              last.ret = query_iterable(entries, last.key, last.limit, last.offset)

\* The paged paths, which sort before returning, do work on a snapshot
PagedQuerySnapshotAtCall ==
    (pending.kind = "consumed" /\ ~Unpaged) =>
        /\ last.raised = None
        /\ last.ret = query_iterable(last.entries, last.key, last.limit, last.offset)
        /\ last.entries \in ItemOrders(old.items)

-----------------------------------------------------------------------------
(* Properties of the class hierarchy (specification SpecClass) *)

RequiredOperations == {"get", "put", "delete", "query"}

ConcreteStores == {"NullStore", "Shim", "Cache", "DictStore"}

\* Constructing Store or a subclass fails with TypeError exactly when one of
\* the required operations is left unimplemented, and then no object exists
\* on which the missing operation could be invoked.
OmissionFailsAtConstruction ==
    /\ (last.op = "construct" /\ last.value = "Store") =>
          (last.raised = "TypeError" <=>
              ~(RequiredOperations \subseteq OwnMethods(last.args)))
    /\ (last.op = "construct" /\ last.value \in ConcreteStores) =>
          last.raised = None
    /\ last.op = "invoke" =>
          ~(last.calls[1] \in RequiredOperations /\ last.ret = "Store")

InheritsContains ==
    /\ last.op = "invoke"
    /\ last.calls = <<"contains">>
    /\ "contains" \notin OwnMethods(last.args)

\* C17 as stated: the abstract Store cannot be instantiated; constructing
\* Store or a subclass leaving get, put, delete or query unimplemented
\* fails at construction time with TypeError, and NullStore, Shim, Cache
\* and DictStore construct successfully and all inherit the default
\* contains of Store.
AllInheritDefaultContains ==
    /\ OmissionFailsAtConstruction
    /\ (InheritsContains /\ last.value \in ConcreteStores) => last.ret = "Store"

\* C17 amended: the abstract Store cannot be instantiated; constructing
\* Store or a subclass leaving get, put, delete or query unimplemented
\* fails at construction time with TypeError; NullStore, Shim, Cache and
\* DictStore construct successfully; NullStore and Shim inherit the default
\* contains of Store, Cache and DictStore define their own.
StoreCannotBeInstantiated ==
    /\ OmissionFailsAtConstruction
    /\ (InheritsContains /\ last.value \in {"Store", "NullStore", "Shim"}) =>
          last.ret = "Store"
    /\ (InheritsContains /\ last.value \in {"Cache", "DictStore"}) =>
          last.ret = last.value

StoreCannotBeInstantiatedWitness ==
    /\ last.op = "construct"
    /\ last.value = "Store"
    /\ OwnMethods(last.args) = {"get", "put", "delete", "contains"}
    /\ last.raised = "TypeError"

-----------------------------------------------------------------------------
(* Properties of the Cache starting empty (specification SpecCoherent) *)

\* C18: cache coherence under serialized, failure-free access. Starting
\* with an empty cache store and with both stores modified only through the
\* Cache, after any sequence of get/put/delete/contains/query calls every
\* key held by the cache store is held by the backing store with the same
\* value: the cache is a sub-map of the backing store.
CacheSubMapOfBacking ==
    \A k \in DOMAIN cache : k \in DOMAIN backing /\ cache[k] = backing[k]

CacheSubMapOfBackingWitness ==
    /\ last.op = "Cache.put"
    /\ DictStore_get(old.cache, last.key) = "1"
    /\ DictStore_get(old.backing, last.key) = "1"
    /\ DictStore_get(cache, last.key) = "2"
    /\ DictStore_get(backing, last.key) = "2"
    /\ DOMAIN cache # DOMAIN backing

-----------------------------------------------------------------------------
(* Properties of the Cache next to a reference store (specification SpecEquiv) *)

\* C19: under serialized, failure-free access a Cache whose cache store
\* starts empty, and may drop any of its entries at any time, cannot be
\* told from its backing store alone: every get/put/delete/contains/query
\* call returns what the same call returns on a reference DictStore given
\* the same calls, and after every call the backing store's contents equal
\* the reference store's.
CacheEquivalentToBacking ==
    /\ last.ret = last.ref
    /\ backing = items

CacheEquivalentToBackingWitness ==
    /\ last.op = "Cache.get"
    /\ pending.kind = "evicted"
    /\ pending.key = normalize(last.key)
    /\ DictStore_get(old.cache, last.key) = None
    /\ old.cache # EmptyItems
    /\ last.ret = "2"
    /\ last.ref = "2"
    /\ DictStore_get(cache, last.key) = "2"

-----------------------------------------------------------------------------
(* Properties of two unsynchronized calls (specification SpecConc), continued *)

\* A get by tg and a delete by td on the same normalized key, where the get
\* missed the cache and read the backing store before the delete removed
\* the key from it, and populated the cache after the delete removed the
\* key from the cache.
DeleteGetRace(tg, td) ==
    /\ frame[tg].op = "get"
    /\ frame[td].op = "delete"
    /\ normalize(frame[tg].key) = normalize(frame[td].key)
    /\ Before(<<tg, "get_child">>, <<td, "delete_child">>)
    /\ Before(<<td, "delete_cache">>, <<tg, "get_populate">>)

\* C20: without synchronization, a delete(k) can interleave with a get(k)
\* that missed the cache and read v from the backing store so that, after
\* both calls have completed, the cache store holds k -> v while the
\* backing store holds no k. The state is not transient: a later
\* Cache.get(k) returns the deleted v and leaves both stores as they are,
\* and Cache.contains(k) is true, so this repeats until k is put or deleted.
StaleAfterDeleteGetRace ==
    \A tg, td \in Threads :
        (AllDone /\ DeleteGetRace(tg, td)) =>
            LET k == frame[tg].key
                v == frame[tg].value
            IN  /\ v # None
                /\ v = DictStore_get(old.backing, k)
                /\ DictStore_get(cache, k) = v
                /\ ~DictStore_contains(backing, k)
                /\ Cache_get_value(cache, backing, k) = v
                /\ Cache_get_cache(cache, backing, k) = cache
                /\ Cache_contains(cache, backing, k)

StaleAfterDeleteGetRaceWitness ==
    /\ AllDone
    /\ DeleteGetRace("t1", "t2")
    /\ frame["t1"].value = "1"
    /\ DictStore_get(cache, frame["t1"].key) = "1"
    /\ ~DictStore_contains(backing, frame["t1"].key)
    /\ Cache_get_value(cache, backing, frame["t1"].key) = "1"

====
